---- MODULE Spec2Model ----
(***************************************************************************)
(* Analisis de Cartera - EDEQ (src/app.py).                                *)
(*                                                                         *)
(* The program is a Streamlit script: every user interaction (uploading a  *)
(* file, changing a widget, pressing the button) runs the whole script     *)
(* once, top to bottom.  One action of this module is one such run.        *)
(*                                                                         *)
(* Text is modelled as a sequence of one-character strings, so that        *)
(* str.strip(), the string cast and the currency format are computed and   *)
(* not assumed.  A spreadsheet cell is NaN (empty), Num(n) (an integer) or *)
(* Str(s) (text).  pandas semantics are those of pandas 1.x / 2.x          *)
(* (astype(str) turns an empty cell into the text "nan").                  *)
(* SALDO_CARTERA is an integer in every row (a numeric column without      *)
(* empty cells).                                                           *)
(***************************************************************************)
EXTENDS Integers, Sequences, FiniteSets, TLC

VARIABLES
    archivo,          \* st.file_uploader: the raw table, or NoArchivo
    df,               \* the normalized table returned by cargar_datos
    sidebar,          \* municipio, ciclo, clase_servicio, edad, servicio, niu
    aplicar,          \* value of the "Aplicar filtros" button in the last run
    filtro_servicio,  \* the "Seleccione Servicio" selectbox of the reports tab
    tab1,             \* what the last run rendered on the main tab
    tab2,             \* what the last run rendered on the reports tab
    tmpfiles,         \* number of temporary files present on the server
    vistos            \* reports rendered so far, each with its selected service

vars == <<archivo, df, sidebar, aplicar, filtro_servicio, tab1, tab2, tmpfiles, vistos>>

----------------------------------------------------------------------------
(* Bounds of the model.                                                    *)

MaxFilas == 2         \* rows of an uploaded table (interactive specification)
MaxFilasCarga == 2    \* rows of an uploaded table (loader specification)
MaxFilasAgr == 3      \* rows of an uploaded table (aggregation specification)
MaxFilasTop == 16     \* rows of an uploaded table (top-10 specification)
MaxLibres == 10       \* rows of free balance in such a table
MaxRuns == 4          \* script runs in one session

----------------------------------------------------------------------------
(* Cells and text.                                                         *)

NaN == [t |-> "nan"]
Num(n) == [t |-> "int", n |-> n]
Str(s) == [t |-> "str", s |-> s]

isna(c) == c.t = "nan"

Digitos == <<"0", "1", "2", "3", "4", "5", "6", "7", "8", "9">>

RECURSIVE NatStr(_)
NatStr(n) == IF n < 10 THEN <<Digitos[n + 1]>>
             ELSE NatStr(n \div 10) \o <<Digitos[(n % 10) + 1]>>

\* str(n) of a Python int
IntStr(n) == IF n < 0 THEN <<"-">> \o NatStr(-n) ELSE NatStr(n)

\* Unicode code points of the characters that occur in the model
Ord(c) ==
    (  ("\t" :> 9) @@ (" " :> 32) @@ ("$" :> 36) @@ ("-" :> 45) @@ ("." :> 46)
    @@ ("0" :> 48) @@ ("1" :> 49) @@ ("2" :> 50) @@ ("3" :> 51) @@ ("4" :> 52)
    @@ ("5" :> 53) @@ ("6" :> 54) @@ ("7" :> 55) @@ ("8" :> 56) @@ ("9" :> 57)
    @@ (">" :> 62) @@ ("A" :> 65) @@ ("B" :> 66) @@ ("C" :> 67) @@ ("D" :> 68)
    @@ ("E" :> 69) @@ ("I" :> 73) @@ ("O" :> 79) @@ ("P" :> 80) @@ ("R" :> 82)
    @@ ("S" :> 83) @@ ("T" :> 84) @@ ("X" :> 88) @@ ("a" :> 97) @@ ("b" :> 98)
    @@ ("c" :> 99) @@ ("d" :> 100) @@ ("e" :> 101) @@ ("f" :> 102) @@ ("g" :> 103)
    @@ ("i" :> 105) @@ ("l" :> 108) @@ ("m" :> 109) @@ ("n" :> 110) @@ ("o" :> 111)
    @@ ("p" :> 112) @@ ("r" :> 114) @@ ("s" :> 115) @@ ("t" :> 116) @@ ("u" :> 117)
    @@ ("v" :> 118) @@ ("x" :> 120) @@ ("Á" :> 193) @@ ("í" :> 237) @@ ("ú" :> 250)
    )[c]

\* Python's < on str: lexicographic by code point
RECURSIVE StrLess(_, _)
StrLess(a, b) ==
    IF b = <<>> THEN FALSE
    ELSE IF a = <<>> THEN TRUE
    ELSE IF Head(a) # Head(b) THEN Ord(Head(a)) < Ord(Head(b))
    ELSE StrLess(Tail(a), Tail(b))

\* str.isspace() of one character
IsSpace(c) == c \in {" ", "\t"}

RECURSIVE lstrip(_)
lstrip(s) == IF s # <<>> /\ IsSpace(Head(s)) THEN lstrip(Tail(s)) ELSE s

RECURSIVE rstrip(_)
rstrip(s) == IF s # <<>> /\ IsSpace(s[Len(s)]) THEN rstrip(SubSeq(s, 1, Len(s) - 1)) ELSE s

\* Series.str.strip() on one value
strip(s) == rstrip(lstrip(s))

\* The dtype pandas gives a column read from the sheet: all integers -> int64,
\* integers with empty cells -> float64, any text -> object.
dtype(col) ==
    IF \A i \in DOMAIN col : col[i].t = "int" THEN "int64"
    ELSE IF \A i \in DOMAIN col : col[i].t \in {"int", "nan"} THEN "float64"
    ELSE "object"

\* Series.astype(str) on one cell of a column of dtype dt
astype_str(dt, c) ==
    IF c.t = "str" THEN c.s
    ELSE IF c.t = "nan" THEN <<"n", "a", "n">>
    ELSE IF dt = "float64" THEN IntStr(c.n) \o <<".", "0">>
    ELSE IntStr(c.n)

Columna(tabla, col) == [i \in DOMAIN tabla |-> tabla[i][col]]

\* Series.replace(dict) on one string value: whole-value replacement
replace(dict, s) == IF s \in DOMAIN dict THEN dict[s] ELSE s

----------------------------------------------------------------------------
(* cargar_datos                                                            *)

reemplazos_servicio ==
       (<<"1">> :> <<"R", "e", "s", "i", "d", "e", "n", "c", "i", "a", "l">>)
    @@ (<<"2">> :> <<"C", "o", "m", "e", "r", "c", "i", "a", "l">>)
    @@ (<<"3">> :> <<"I", "n", "d", "u", "s", "t", "r", "i", "a", "l">>)
    @@ (<<"4">> :> <<"O", "f", "i", "c", "i", "a", "l">>)
    @@ (<<"5">> :> <<"A", "l", "u", "m", "b", "r", "a", "d", "o", " ", "P", "ú", "b", "l", "i", "c", "o">>)
    @@ (<<"6">> :> <<"E", "s", "p", "e", "c", "i", "a", "l">>)
    @@ (<<"7">> :> <<"P", "r", "o", "v", "i", "s", "i", "o", "n", "a", "l">>)
    @@ (<<"1", "0">> :> <<"Á", "r", "e", "a", " ", "C", "o", "m", "ú", "n">>)
    @@ (<<"1", "1">> :> <<"A", "u", "t", "o", "c", "o", "n", "s", "u", "m", "o">>)

reemplazos_edad ==
       (<<"0">> :> <<"C", "o", "r", "r", "i", "e", "n", "t", "e">>)
    @@ (<<"1">> :> <<"1", " ", "a", " ", "3", "0", " ", "D", "í", "a", "s">>)
    @@ (<<"2">> :> <<"3", "1", " ", "a", " ", "6", "0", " ", "D", "í", "a", "s">>)
    @@ (<<"3">> :> <<"6", "1", " ", "a", " ", "9", "0", " ", "D", "í", "a", "s">>)
    @@ (<<"4">> :> <<"9", "1", " ", "a", " ", "1", "2", "0", " ", "D", "í", "a", "s">>)
    @@ (<<"5">> :> <<"1", "2", "1", " ", "a", " ", "1", "5", "0", " ", "D", "í", "a", "s">>)
    @@ (<<"6">> :> <<"1", "5", "1", " ", "a", " ", "1", "8", "0", " ", "D", "í", "a", "s">>)

reemplazos_codigo ==
       (<<"6", "0", "1">> :> <<"E", "n", "e", "r", "g", "í", "a">>)
    @@ (<<"6", "0", "3">> :> <<"S", "o", "m", "o", "s">>)
    @@ (<<"6", "0", "9">> :> <<"T", "e", "r", "c", "e", "r", "o", "s">>)

\* '> a 180 Días'
MayorA180 == <<">", " ", "a", " ", "1", "8", "0", " ", "D", "í", "a", "s">>

\* reemplazos_edad.values()
EtiquetasEdad == {reemplazos_edad[k] : k \in DOMAIN reemplazos_edad}

\* df['CLASE_SERVICIO'].astype(str).str.strip().replace(reemplazos_servicio)
recodificar_clase(dt, c) == replace(reemplazos_servicio, strip(astype_str(dt, c)))

\* faulty variant of edad_o_mayor: line 61 left out
edad_sin_resto(x) == x

\* the lambda of line 61
edad_o_mayor(x) == IF x \notin EtiquetasEdad THEN MayorA180 ELSE x

\* df['EDAD'].astype(str).str.strip().replace(reemplazos_edad), then the lambda
recodificar_edad(dt, c) == edad_o_mayor(replace(reemplazos_edad, strip(astype_str(dt, c))))

\* faulty variant of recodificar_codigo: the .str.strip() left out
recodificar_codigo_sin_strip(dt, c) == replace(reemplazos_codigo, astype_str(dt, c))

\* df['CODIGO_DEL_SERVICIO'].astype(str).str.strip().replace(reemplazos_codigo)
recodificar_codigo(dt, c) == replace(reemplazos_codigo, strip(astype_str(dt, c)))

cargar_datos(tabla) ==
    LET dtClase  == dtype(Columna(tabla, "CLASE_SERVICIO"))
        dtEdad   == dtype(Columna(tabla, "EDAD"))
        dtCodigo == dtype(Columna(tabla, "CODIGO_DEL_SERVICIO"))
    IN  [i \in DOMAIN tabla |->
            [tabla[i] EXCEPT
                !.CLASE_SERVICIO = Str(recodificar_clase(dtClase, @)),
                !.EDAD = Str(recodificar_edad(dtEdad, @)),
                !.CODIGO_DEL_SERVICIO = Str(recodificar_codigo(dtCodigo, @))]]

----------------------------------------------------------------------------
(* formato_pesos                                                           *)

Pad3(n) == <<Digitos[(n \div 100) + 1], Digitos[((n \div 10) % 10) + 1], Digitos[(n % 10) + 1]>>

\* f"{n:,}" of a natural number: digits grouped in threes with ","
RECURSIVE Miles(_)
Miles(n) == IF n < 1000 THEN NatStr(n) ELSE Miles(n \div 1000) \o <<",">> \o Pad3(n % 1000)

\* str.replace(old, new) for one-character old and new
replace_char(s, old, new) == [i \in DOMAIN s |-> IF s[i] = old THEN new ELSE s[i]]

\* round-half-even of the non-negative rational num / den (the ".0f" format)
Redondear(num, den) ==
    LET q == num \div den
        r == num % den
    IN  IF 2 * r < den THEN q
        ELSE IF 2 * r > den THEN q + 1
        ELSE IF q % 2 = 0 THEN q ELSE q + 1

\* A number is an exact rational [num, den] with den > 0; an integer has den = 1.
Entero(n) == [num |-> n, den |-> 1]

\* f"${valor:,.0f}".replace(",", ".")
formato_pesos(valor) ==
    LET abs == IF valor.num < 0 THEN -valor.num ELSE valor.num
        signo == IF valor.num < 0 THEN <<"-">> ELSE <<>>
    IN  replace_char(<<"$">> \o signo \o Miles(Redondear(abs, valor.den)), ",", ".")

----------------------------------------------------------------------------
(* Helpers on tables.  A view of df (a filtered DataFrame) is the sequence  *)
(* of the index labels of its rows, in order; labels are positions in df.   *)

Indices(d) == [i \in DOMAIN d |-> i]

RECURSIVE Suma(_, _)
\* Series.sum() of SALDO_CARTERA over a view
Suma(d, vista) == IF vista = <<>> THEN 0 ELSE d[Head(vista)].SALDO_CARTERA + Suma(d, Tail(vista))

\* Series.dropna().unique() as a set
Unicos(d, vista, col) == {d[vista[k]][col] : k \in DOMAIN vista} \ {NaN}

\* faulty variant of nunique: nunique(dropna=False), an empty cell counts as a value
nunique_con_nulos(d, vista, col) == Cardinality({d[vista[k]][col] : k \in DOMAIN vista})

\* Series.nunique(): empty cells are not counted
nunique(d, vista, col) == Cardinality(Unicos(d, vista, col))

\* Python's < on the keys of one column
CeldaMenor(a, b) ==
    IF a.t = "int" /\ b.t = "int" THEN a.n < b.n ELSE StrLess(a.s, b.s)

RECURSIVE sorted(_)
\* sorted(...) of a set of cells of one kind
sorted(S) ==
    IF S = {} THEN <<>>
    ELSE LET m == CHOOSE x \in S : \A y \in S \ {x} : CeldaMenor(x, y)
         IN  <<m>> \o sorted(S \ {m})

\* the rows of a view whose column col holds key
Grupo(d, vista, col, key) == SelectSeq(vista, LAMBDA i : d[i][col] = key)

\* faulty variant of first: the value of the first row of the group, empty or not
first_con_nulos(d, grupo, col) == d[Head(grupo)][col]

\* GroupBy 'first': the first non-null value of the column in the group
first(d, grupo, col) ==
    LET noNulos == SelectSeq(grupo, LAMBDA i : ~isna(d[i][col]))
    IN  IF noNulos = <<>> THEN NaN ELSE d[Head(noNulos)][col]

----------------------------------------------------------------------------
(* Tab 1: Analisis Principal                                               *)

\* the options of the sidebar widgets (lines 92-97), as sets
OpcionesMunicipio(d) == Unicos(d, Indices(d), "DESCRIPCION_MUNICIPIO")
OpcionesCiclo(d) == Unicos(d, Indices(d), "CICLO")
OpcionesClase(d) == Unicos(d, Indices(d), "CLASE_SERVICIO")
OpcionesEdad(d) == Unicos(d, Indices(d), "EDAD")
OpcionesServicio(d) == Unicos(d, Indices(d), "CODIGO_DEL_SERVICIO")

\* df["NIU"].astype(str) on one row; filtering keeps the dtype of the column
niu_str(d, i) == astype_str(dtype(Columna(d, "NIU")), d[i].NIU)

\* [""] + sorted(df["NIU"].dropna().astype(str).unique()), as a set
OpcionesNiu(d) == {<<>>} \cup {niu_str(d, i) : i \in {j \in DOMAIN d : ~isna(d[j].NIU)}}

\* df_filtrado[df_filtrado[col].isin(sel)]
isin(d, vista, col, sel) == SelectSeq(vista, LAMBDA i : d[i][col] \in sel)

\* one "if sel: df_filtrado = ..." line of the filter block
filtro_isin(d, vista, col, sel) == IF sel # {} THEN isin(d, vista, col, sel) ELSE vista

\* if niu: df_filtrado = df_filtrado[df_filtrado["NIU"].astype(str) == niu]
filtro_niu(d, vista, niu) ==
    IF niu # <<>> THEN SelectSeq(vista, LAMBDA i : niu_str(d, i) = niu) ELSE vista

\* faulty variant of filtrar: every line filters df instead of df_filtrado, so that
\* only the last active filter counts
filtrar_sin_encadenar(d, sb) ==
    LET f0 == Indices(d)
        f1 == filtro_isin(d, f0, "DESCRIPCION_MUNICIPIO", sb.municipio)
        f2 == IF sb.ciclo # {} THEN isin(d, f0, "CICLO", sb.ciclo) ELSE f1
        f3 == IF sb.clase_servicio # {} THEN isin(d, f0, "CLASE_SERVICIO", sb.clase_servicio) ELSE f2
        f4 == IF sb.edad # {} THEN isin(d, f0, "EDAD", sb.edad) ELSE f3
        f5 == IF sb.servicio # {} THEN isin(d, f0, "CODIGO_DEL_SERVICIO", sb.servicio) ELSE f4
    IN  IF sb.niu # <<>> THEN filtro_niu(d, f0, sb.niu) ELSE f5

\* lines 101-107
filtrar(d, sb) ==
    LET f0 == Indices(d)
        f1 == filtro_isin(d, f0, "DESCRIPCION_MUNICIPIO", sb.municipio)
        f2 == filtro_isin(d, f1, "CICLO", sb.ciclo)
        f3 == filtro_isin(d, f2, "CLASE_SERVICIO", sb.clase_servicio)
        f4 == filtro_isin(d, f3, "EDAD", sb.edad)
        f5 == filtro_isin(d, f4, "CODIGO_DEL_SERVICIO", sb.servicio)
    IN  filtro_niu(d, f5, sb.niu)

\* the group keys of df_filtrado.groupby(['NIU']): empty NIU cells form no
\* group (dropna=True), keys come out sorted (sort=True)
claves_niu(d, vista) == sorted(Unicos(d, vista, "NIU"))

\* one row of .agg({...}).reset_index()
fila_agrupada(d, vista, key) ==
    LET g == Grupo(d, vista, "NIU", key)
    IN  [NIU |-> key,
         SALDO_CARTERA |-> Suma(d, g),
         NOMBRE |-> first(d, g, "NOMBRE"),
         DIRECCION |-> first(d, g, "DIRECCION"),
         DESCRIPCION_MUNICIPIO |-> first(d, g, "DESCRIPCION_MUNICIPIO"),
         CICLO |-> first(d, g, "CICLO"),
         EDAD |-> first(d, g, "EDAD"),
         CODIGO_DEL_SERVICIO |-> first(d, g, "CODIGO_DEL_SERVICIO")]

\* lines 110-118
agrupar(d, vista) ==
    LET keys == claves_niu(d, vista)
    IN  [k \in DOMAIN keys |-> fila_agrupada(d, vista, keys[k])]

\* line 120: agrupado['SALDO_CARTERA'].apply(formato_pesos)
formatear(agr) ==
    [k \in DOMAIN agr |-> [agr[k] EXCEPT !.SALDO_CARTERA = formato_pesos(Entero(@))]]

columnas_ordenadas ==
    <<"NIU", "NOMBRE", "DIRECCION", "DESCRIPCION_MUNICIPIO", "CICLO",
      "SALDO_CARTERA", "EDAD", "CODIGO_DEL_SERVICIO">>

\* what the main tab shows when the button was not pressed: nothing
SinResultados ==
    [mostrado |-> FALSE, df_filtrado |-> <<>>, agrupado_saldos |-> <<>>,
     columnas |-> <<>>, agrupado |-> <<>>, excel |-> <<>>]

\* faulty variant of pestana_principal: the "if aplicar:" left out
pestana_principal_siempre(d, sb, apl) ==
    [mostrado |-> TRUE,
     df_filtrado |-> filtrar(d, sb),
     agrupado_saldos |-> agrupar(d, filtrar(d, sb)),
     columnas |-> columnas_ordenadas,
     agrupado |-> formatear(agrupar(d, filtrar(d, sb))),
     excel |-> formatear(agrupar(d, filtrar(d, sb)))]

\* lines 100-136.  agrupado_saldos is agrupado before line 120; excel is the
\* sheet written to the BytesIO buffer handed to st.download_button.
pestana_principal(d, sb, apl) ==
    IF apl
    THEN LET df_filtrado == filtrar(d, sb)
             agrupado == agrupar(d, df_filtrado)
         IN  [mostrado |-> TRUE,
              df_filtrado |-> df_filtrado,
              agrupado_saldos |-> agrupado,
              columnas |-> columnas_ordenadas,
              agrupado |-> formatear(agrupado),
              excel |-> formatear(agrupado)]
    ELSE SinResultados

\* faulty variant of df_tras_principal: the filter block assigns to df itself
df_reasignado(d, sb, apl) ==
    IF apl THEN [k \in DOMAIN filtrar(d, sb) |-> d[filtrar(d, sb)[k]]] ELSE d

\* the value of the script variable df when the main tab is done: line 101
\* filters a copy, df itself is never assigned
df_tras_principal(d, sb, apl) == d

----------------------------------------------------------------------------
(* Tab 2: Informes                                                         *)

\* the 10 of nlargest(10, 'SALDO_CARTERA')
TopN == 10

Ninguno == [t |-> "none"]

\* sorted(df["CODIGO_DEL_SERVICIO"].unique())
OpcionesInforme(d) == sorted(OpcionesServicio(d))

\* the value a selectbox shows before the user touches it: its first option
PorDefecto(d) == IF OpcionesInforme(d) = <<>> THEN Ninguno ELSE OpcionesInforme(d)[1]

\* df[df["CODIGO_DEL_SERVICIO"] == filtro_servicio]
filtrar_servicio(d, fs) == SelectSeq(Indices(d), LAMBDA i : d[i].CODIGO_DEL_SERVICIO = fs)

\* saldo_total / clientes_unicos if clientes_unicos > 0 else 0
promedio_de(saldo_total, clientes_unicos) ==
    IF clientes_unicos > 0 THEN [num |-> saldo_total, den |-> clientes_unicos] ELSE Entero(0)

\* groupby('EDAD').agg({'SALDO_CARTERA': 'sum', 'NIU': 'nunique'}).reset_index()
\* with SALDO_CARTERA_MILES = SALDO_CARTERA / 1000
cartera_por_edad_de(d, vista) ==
    LET keys == sorted(Unicos(d, vista, "EDAD"))
    IN  [k \in DOMAIN keys |->
            LET g == Grupo(d, vista, "EDAD", keys[k])
            IN  [EDAD |-> keys[k],
                 SALDO_CARTERA |-> Suma(d, g),
                 NIU |-> nunique(d, g, "NIU"),
                 SALDO_CARTERA_MILES |-> [num |-> Suma(d, g), den |-> 1000]]]

\* groupby('EDAD').agg({'SALDO_CARTERA': 'sum'}).reset_index() with SALDO_FORMATO
grafico_por_edad_de(d, vista) ==
    LET keys == sorted(Unicos(d, vista, "EDAD"))
    IN  [k \in DOMAIN keys |->
            LET g == Grupo(d, vista, "EDAD", keys[k])
            IN  [EDAD |-> keys[k],
                 SALDO_CARTERA |-> Suma(d, g),
                 SALDO_FORMATO |-> formato_pesos(Entero(Suma(d, g)))]]

RECURSIVE SumaColumna(_)
\* grafico_por_edad['SALDO_CARTERA'].sum()
SumaColumna(t) == IF t = <<>> THEN 0 ELSE Head(t).SALDO_CARTERA + SumaColumna(Tail(t))

\* faulty variant of antes_en_top: keep='last'
antes_en_top_ultimo(d, a, b) ==
    \/ d[a].SALDO_CARTERA > d[b].SALDO_CARTERA
    \/ d[a].SALDO_CARTERA = d[b].SALDO_CARTERA /\ a > b

\* the order of nlargest (keep='first'): larger balance first, and among
\* equal balances the row that comes first in the table
antes_en_top(d, a, b) ==
    \/ d[a].SALDO_CARTERA > d[b].SALDO_CARTERA
    \/ d[a].SALDO_CARTERA = d[b].SALDO_CARTERA /\ a < b

\* df_filtrado_servicio.nlargest(n, 'SALDO_CARTERA'), as index labels
nlargest(d, vista, n) ==
    LET orden == SortSeq(vista, LAMBDA a, b : antes_en_top(d, a, b))
    IN  SubSeq(orden, 1, IF Len(orden) < n THEN Len(orden) ELSE n)

\* [['NIU', 'NOMBRE', 'SALDO_CARTERA']] with the balance formatted,
\* .reset_index(drop=True)
tabla_top10(d, top) ==
    [k \in DOMAIN top |->
        [NIU |-> d[top[k]].NIU,
         NOMBRE |-> d[top[k]].NOMBRE,
         SALDO_CARTERA |-> formato_pesos(Entero(d[top[k]].SALDO_CARTERA))]]

SinInformes == [mostrado |-> FALSE]

\* lines 141-208 without the temporary file
pestana_informes(d, fs) ==
    LET df_filtrado_servicio == filtrar_servicio(d, fs)
        saldo_total == Suma(d, df_filtrado_servicio)
        clientes_unicos == nunique(d, df_filtrado_servicio, "NIU")
        promedio == promedio_de(saldo_total, clientes_unicos)
        grafico_por_edad == grafico_por_edad_de(d, df_filtrado_servicio)
        total_cartera == SumaColumna(grafico_por_edad)
        fig_edad == [titulo_total |-> formato_pesos(Entero(total_cartera)),
                     barras |-> grafico_por_edad]
        top10 == nlargest(d, df_filtrado_servicio, TopN)
    IN  [mostrado |-> TRUE,
         df_filtrado_servicio |-> df_filtrado_servicio,
         saldo_total |-> saldo_total,
         clientes_unicos |-> clientes_unicos,
         promedio |-> promedio,
         kpi1 |-> formato_pesos(Entero(saldo_total)),
         kpi2 |-> replace_char(Miles(clientes_unicos), ",", "."),
         kpi3 |-> formato_pesos(promedio),
         cartera_por_edad |-> cartera_por_edad_de(d, df_filtrado_servicio),
         grafico_por_edad |-> grafico_por_edad,
         total_cartera |-> total_cartera,
         pdf_bytes |-> [pdf |-> fig_edad],
         top10_index |-> top10,
         top10 |-> tabla_top10(d, top10)]

\* lines 193-195: NamedTemporaryFile(delete=False) creates one file on the
\* server, and leaving the with block closes it without removing it
tras_exportar_pdf(n) == n + 1

----------------------------------------------------------------------------
(* One run of the script.                                                  *)

NoArchivo == <<>>

SidebarVacio ==
    [municipio |-> {}, ciclo |-> {}, clase_servicio |-> {}, edad |-> {},
     servicio |-> {}, niu |-> <<>>]

\* a: the uploaded table, sb: the sidebar widgets, apl: the button,
\* fs: the reports selectbox.  d is df as cargar_datos returns it, d2 is df
\* as the reports tab reads it.
Ejecutar(a, sb, apl, fs) ==
    \E d \in {cargar_datos(a)} :
    \E d2 \in {df_tras_principal(d, sb, apl)} :
        /\ archivo' = a
        /\ df' = d2
        /\ sidebar' = sb
        /\ aplicar' = apl
        /\ filtro_servicio' = fs
        /\ tab1' = pestana_principal(d, sb, apl)
        /\ tab2' = pestana_informes(d2, fs)
        /\ tmpfiles' = tras_exportar_pdf(tmpfiles)
        /\ vistos' = (IF a = archivo THEN vistos ELSE {}) \cup {<<fs, tab2'>>}

Alternar(S, v) == IF v \in S THEN S \ {v} ELSE S \cup {v}

PuedeEjecutar == archivo # NoArchivo /\ tmpfiles < MaxRuns

\* the user uploads a spreadsheet: first run with a file
SubirArchivo(tablas) ==
    /\ archivo = NoArchivo
    /\ \E t \in tablas : Ejecutar(t, SidebarVacio, FALSE, PorDefecto(cargar_datos(t)))

CambiarMunicipio ==
    /\ PuedeEjecutar
    /\ \E v \in OpcionesMunicipio(df) :
         Ejecutar(archivo, [sidebar EXCEPT !.municipio = Alternar(@, v)], FALSE, filtro_servicio)

CambiarCiclo ==
    /\ PuedeEjecutar
    /\ \E v \in OpcionesCiclo(df) :
         Ejecutar(archivo, [sidebar EXCEPT !.ciclo = Alternar(@, v)], FALSE, filtro_servicio)

CambiarClaseServicio ==
    /\ PuedeEjecutar
    /\ \E v \in OpcionesClase(df) :
         Ejecutar(archivo, [sidebar EXCEPT !.clase_servicio = Alternar(@, v)], FALSE, filtro_servicio)

CambiarEdad ==
    /\ PuedeEjecutar
    /\ \E v \in OpcionesEdad(df) :
         Ejecutar(archivo, [sidebar EXCEPT !.edad = Alternar(@, v)], FALSE, filtro_servicio)

CambiarServicio ==
    /\ PuedeEjecutar
    /\ \E v \in OpcionesServicio(df) :
         Ejecutar(archivo, [sidebar EXCEPT !.servicio = Alternar(@, v)], FALSE, filtro_servicio)

CambiarNiu ==
    /\ PuedeEjecutar
    /\ \E v \in OpcionesNiu(df) \ {sidebar.niu} :
         Ejecutar(archivo, [sidebar EXCEPT !.niu = v], FALSE, filtro_servicio)

\* the user presses "Aplicar filtros"
Aplicar ==
    /\ PuedeEjecutar
    /\ Ejecutar(archivo, sidebar, TRUE, filtro_servicio)

CambiarFiltroServicio ==
    /\ PuedeEjecutar
    /\ \E v \in OpcionesServicio(df) \ {filtro_servicio} :
         Ejecutar(archivo, sidebar, FALSE, v)

Init ==
    /\ archivo = NoArchivo
    /\ df = <<>>
    /\ sidebar = SidebarVacio
    /\ aplicar = FALSE
    /\ filtro_servicio = Ninguno
    /\ tab1 = SinResultados
    /\ tab2 = SinInformes
    /\ tmpfiles = 0
    /\ vistos = {}

----------------------------------------------------------------------------
(* The uploaded tables of each specification.                              *)

Fila(niu, nombre, direccion, municipio, ciclo, clase, edad, codigo, saldo) ==
    [NIU |-> niu, NOMBRE |-> nombre, DIRECCION |-> direccion,
     DESCRIPCION_MUNICIPIO |-> municipio, CICLO |-> ciclo,
     CLASE_SERVICIO |-> clase, EDAD |-> edad, CODIGO_DEL_SERVICIO |-> codigo,
     SALDO_CARTERA |-> saldo]

Armenia == Str(<<"A", "r", "m", "e", "n", "i", "a">>)
Calarca == Str(<<"C", "a", "l", "a", "r", "c", "a">>)
Ana == Str(<<"A", "n", "a">>)
Beto == Str(<<"B", "e", "t", "o">>)
Calle1 == Str(<<"C", "l", " ", "1">>)

\* tables of 1..n rows over a set of rows
TablasDe(filas, n) == UNION {[1..k -> filas] : k \in 1..n}

\* Interactive specification: the customer and the service code vary freely;
\* name, municipality and cycle follow the customer, service class, aging
\* and balance follow the service code.
Filas ==
    {Fila(niu,
          IF niu = Num(1) THEN Ana ELSE NaN,
          Calle1,
          IF niu = Num(1) THEN Armenia ELSE Calarca,
          IF niu = Num(1) THEN Num(1) ELSE Num(2),
          IF codigo = Num(601) THEN Num(1) ELSE Num(2),
          IF codigo = Num(601) THEN Num(0) ELSE Num(9),
          codigo,
          IF codigo = Num(601) THEN 1500 ELSE 250) :
        niu \in {NaN, Num(1)}, codigo \in {Num(601), Num(603)}}

Subir == SubirArchivo(TablasDe(Filas, MaxFilas))

Next ==
    \/ Subir
    \/ CambiarMunicipio
    \/ CambiarCiclo
    \/ CambiarClaseServicio
    \/ CambiarEdad
    \/ CambiarServicio
    \/ CambiarNiu
    \/ Aplicar
    \/ CambiarFiltroServicio

Spec == Init /\ [][Next]_vars

----------------------------------------------------------------------------
(* Loader specification: one of the three recoded columns holds raw cells,  *)
(* the other columns hold a fixed value.                                    *)

Crudos ==
    {NaN, Num(0), Num(1), Num(6), Num(7), Num(10), Num(600), Num(601),
     Str(<<>>), Str(<<" ", " ">>),
     Str(<<"1">>), Str(<<" ", "1", " ">>), Str(<<"1", "\t">>), Str(<<"1", " ", "0">>),
     Str(<<"6", "0", "9", " ">>), Str(<<"X">>), Str(<<" ", "X">>),
     Str(<<"C", "o", "r", "r", "i", "e", "n", "t", "e">>),
     Str(<<" ", "C", "o", "r", "r", "i", "e", "n", "t", "e">>),
     Str(<<"S", "o", "m", "o", "s">>)}

FilaCarga(clase, edad, codigo) ==
    Fila(Num(1), Ana, Calle1, Armenia, Num(1), clase, edad, codigo, 1500)

\* the tables of up to n rows
TablasCarga(n) ==
    UNION {
        {[i \in 1..k |-> FilaCarga(c[i], Num(0), Num(601))] : c \in [1..k -> Crudos]}
        \cup {[i \in 1..k |-> FilaCarga(Num(1), c[i], Num(601))] : c \in [1..k -> Crudos]}
        \cup {[i \in 1..k |-> FilaCarga(Num(1), Num(0), c[i])] : c \in [1..k -> Crudos]}
        : k \in 1..n}

SubirCarga == SubirArchivo(TablasCarga(MaxFilasCarga))

NextCarga == SubirCarga

SpecCarga == Init /\ [][NextCarga]_vars

----------------------------------------------------------------------------
(* Aggregation specification: customer, name and service code vary freely;  *)
(* the address is present when the name is missing, the balance follows the *)
(* name and the municipality follows the service code.                      *)

FilasAgr ==
    {Fila(niu,
          nombre,
          IF nombre = NaN THEN Calle1 ELSE NaN,
          IF codigo = Num(601) THEN Armenia ELSE NaN,
          Num(1),
          Num(1),
          Num(0),
          codigo,
          IF nombre = NaN THEN 250 ELSE 1500) :
        niu \in {NaN, Num(1), Num(2)}, nombre \in {NaN, Ana}, codigo \in {Num(601), Num(603)}}

SubirAgr == SubirArchivo(TablasDe(FilasAgr, MaxFilasAgr))

NextAgr ==
    \/ SubirAgr
    \/ Aplicar
    \/ CambiarFiltroServicio

SpecAgr == Init /\ [][NextAgr]_vars

----------------------------------------------------------------------------
(* Top-10 specification: tables of up to MaxFilasTop rows.  The last       *)
(* MaxLibres rows are of service 601 with a balance of 100 or 200; the rows *)
(* before them are one row of service 603 with balance 200, then rows of    *)
(* service 601 with balance 100.  Ties occur inside and across the cut.     *)

FilaTop(codigo, saldo) ==
    Fila(Num(1), Ana, Calle1, Armenia, Num(1), Num(1), Num(0), Num(codigo), saldo)

Prefijo(n) == [i \in 1..n |-> IF i = 1 THEN FilaTop(603, 200) ELSE FilaTop(601, 100)]

\* the tables of up to n rows
TablasTop(n) ==
    UNION {
        {Prefijo(k - Len(t)) \o t :
            t \in [1..(IF k < MaxLibres THEN k ELSE MaxLibres) -> {FilaTop(601, 100), FilaTop(601, 200)}]}
        : k \in 1..n}

SubirTop == SubirArchivo(TablasTop(MaxFilasTop))

NextTop == SubirTop

SpecTop == Init /\ [][NextTop]_vars

----------------------------------------------------------------------------
(* Properties.                                                             *)

Cargado == archivo # NoArchivo

\* the row of df with index label i satisfies every active predicate
Cumple(i) ==
    /\ sidebar.municipio # {} => df[i].DESCRIPCION_MUNICIPIO \in sidebar.municipio
    /\ sidebar.ciclo # {} => df[i].CICLO \in sidebar.ciclo
    /\ sidebar.clase_servicio # {} => df[i].CLASE_SERVICIO \in sidebar.clase_servicio
    /\ sidebar.edad # {} => df[i].EDAD \in sidebar.edad
    /\ sidebar.servicio # {} => df[i].CODIGO_DEL_SERVICIO \in sidebar.servicio
    /\ sidebar.niu # <<>> => niu_str(df, i) = sidebar.niu

\* C1: in a run with the button pressed, the filtered view holds exactly the
\* rows of the normalized table, in table order, that satisfy the selection
\* of every field with a non-empty selection (membership within a field, AND
\* across fields, NIU compared as text); with nothing selected it is the
\* whole table.
C1_FiltroExacto ==
    aplicar =>
        /\ tab1.df_filtrado = SelectSeq(Indices(df), Cumple)
        /\ sidebar = SidebarVacio => tab1.df_filtrado = Indices(df)

\* two fields are constrained and the result is a proper, non-empty part
C1_Witness ==
    /\ aplicar
    /\ sidebar.municipio # {}
    /\ sidebar.servicio # {}
    /\ tab1.df_filtrado # <<>>
    /\ Len(tab1.df_filtrado) < Len(df)

\* C2: a run in which the button was not pressed filters nothing and shows
\* no main-tab result or export, whatever is staged in the sidebar; a run in
\* which it was pressed shows a result, also when no row matches.
C2_SoloAlAplicar ==
    /\ ~aplicar => tab1 = SinResultados
    /\ aplicar =>
        /\ tab1.mostrado
        /\ tab1 # SinResultados
        /\ tab1.df_filtrado = filtrar(df, sidebar)
        /\ tab1.excel = tab1.agrupado

\* an applied filter that matches no row is shown, as an empty result
C2_Witness ==
    /\ aplicar
    /\ sidebar # SidebarVacio
    /\ tab1.mostrado
    /\ tab1.df_filtrado = <<>>

\* C9 (as claimed): no file created by an export is left on the server
\* after a run.
C9_SinArchivosTemporales == tmpfiles = 0

\* C10: all reports rendered for one uploaded table and one selected service
\* are identical, whatever the sidebar held and whether the button was
\* pressed, and the table the reports read is the table the loader returned.
C10_InformesIndependientes ==
    /\ \A p \in vistos : \A q \in vistos : p[1] = q[1] => p[2] = q[2]
    /\ Cargado => df = cargar_datos(archivo)

\* the third run of a session applied a filter that removes rows
C10_Witness ==
    /\ aplicar
    /\ tmpfiles >= 3
    /\ Len(tab1.df_filtrado) < Len(df)
    /\ <<filtro_servicio, tab2>> \in vistos


\* the index labels of the filtered view whose NIU is key, in view order
FilasDe(key) == SelectSeq(tab1.df_filtrado, LAMBDA i : df[i].NIU = key)

\* the position in the filtered view of the first row whose NIU is key
PrimeraAparicion(key) ==
    CHOOSE k \in DOMAIN tab1.df_filtrado :
        /\ df[tab1.df_filtrado[k]].NIU = key
        /\ \A j \in 1..(k - 1) : df[tab1.df_filtrado[j]].NIU # key

Descriptivos ==
    {"NOMBRE", "DIRECCION", "DESCRIPCION_MUNICIPIO", "CICLO", "EDAD", "CODIGO_DEL_SERVICIO"}

\* C3 (as claimed): the balances of the aggregation add up to the balances
\* of the filtered view, rows without customer id included.
C3_ConservacionDelTotal ==
    aplicar => SumaColumna(tab1.agrupado_saldos) = Suma(df, tab1.df_filtrado)

\* C4 (as claimed): every descriptive field of an aggregated row is the value
\* of the first row of its group, also when that value is missing, and the
\* aggregated rows come in the order in which their customer ids first
\* appear in the filtered view.
C4_PrimeraFila ==
    aplicar =>
        LET agr == tab1.agrupado_saldos
        IN  /\ \A k \in DOMAIN agr : \A col \in Descriptivos :
                  agr[k][col] = df[Head(FilasDe(agr[k].NIU))][col]
            /\ \A j \in DOMAIN agr : \A k \in DOMAIN agr :
                  j < k => PrimeraAparicion(agr[j].NIU) < PrimeraAparicion(agr[k].NIU)

\* C4 (amended): there is one aggregated row for every customer id present in
\* the filtered view; every descriptive field of it is the first value that is
\* not missing among the rows of its group, in filtered-view order, and is
\* missing only when the whole group lacks it; the aggregated rows come in
\* ascending order of customer id.
C4_PrimerNoNulo ==
    aplicar =>
        LET agr == tab1.agrupado_saldos
            vista == tab1.df_filtrado
        IN  /\ {agr[k].NIU : k \in DOMAIN agr} = {df[vista[j]].NIU : j \in DOMAIN vista} \ {NaN}
            /\ \A j \in DOMAIN agr : \A k \in DOMAIN agr : j < k => agr[j].NIU.n < agr[k].NIU.n
            /\ \A k \in DOMAIN agr : \A col \in Descriptivos :
                  LET g == FilasDe(agr[k].NIU)
                  IN  IF \A m \in DOMAIN g : isna(df[g[m]][col])
                      THEN isna(agr[k][col])
                      ELSE \E m \in DOMAIN g :
                              /\ agr[k][col] = df[g[m]][col]
                              /\ ~isna(df[g[m]][col])
                              /\ \A n \in 1..(m - 1) : isna(df[g[n]][col])

\* a group whose first row has no name and whose second row has one, shown
\* after a customer that appears later in the filtered view
C4_Witness ==
    /\ aplicar
    /\ \E j \in DOMAIN tab1.agrupado_saldos : \E k \in DOMAIN tab1.agrupado_saldos :
          /\ j < k
          /\ PrimeraAparicion(tab1.agrupado_saldos[k].NIU) < PrimeraAparicion(tab1.agrupado_saldos[j].NIU)
    /\ \E k \in DOMAIN tab1.agrupado_saldos :
          LET g == FilasDe(tab1.agrupado_saldos[k].NIU)
          IN  /\ Len(g) >= 2
              /\ isna(df[g[1]].NOMBRE)
              /\ ~isna(df[g[2]].NOMBRE)
              /\ tab1.agrupado_saldos[k].NOMBRE = df[g[2]].NOMBRE

\* the set of index labels of df whose service code is the selected one
DelServicio == {i \in DOMAIN df : df[i].CODIGO_DEL_SERVICIO = filtro_servicio}

RECURSIVE SumaSaldos(_)
SumaSaldos(I) ==
    IF I = {} THEN 0
    ELSE LET i == CHOOSE x \in I : TRUE IN df[i].SALDO_CARTERA + SumaSaldos(I \ {i})

\* C7: the KPI total is the sum of the balances of the rows of the selected
\* service, the KPI count is the number of distinct customer ids among them,
\* and the KPI average is total / count when count > 0 and 0 when count = 0.
C7_KPIs ==
    Cargado =>
        /\ tab2.saldo_total = SumaSaldos(DelServicio)
        /\ tab2.clientes_unicos = Cardinality({df[i].NIU : i \in DelServicio} \ {NaN})
        /\ tab2.promedio.den > 0
        /\ tab2.clientes_unicos > 0 =>
              tab2.promedio.num * tab2.clientes_unicos = tab2.saldo_total * tab2.promedio.den
        /\ tab2.clientes_unicos = 0 => tab2.promedio.num = 0

\* rows of the selected service without any customer id: count 0, total > 0
C7_Witness ==
    /\ Cargado
    /\ tab2.clientes_unicos = 0
    /\ tab2.saldo_total > 0
    /\ tab2.promedio = Entero(0)


Saldo(i) == df[i].SALDO_CARTERA

EnTop == {tab2.top10_index[k] : k \in DOMAIN tab2.top10_index}

\* C8: the top-10 table holds min(10, n) of the n rows of the selected
\* service, each once, by descending balance; no row left out has a larger
\* balance than a row taken, and among equal balances the rows are ordered,
\* and cut off, by their position in the table.
C8_Top10 ==
    Cargado =>
        LET top == tab2.top10_index
            n == Cardinality(DelServicio)
        IN  /\ Len(top) = IF n < 10 THEN n ELSE 10
            /\ EnTop \subseteq DelServicio
            /\ Cardinality(EnTop) = Len(top)
            /\ \A j \in DOMAIN top : \A k \in DOMAIN top :
                  j < k =>
                      \/ Saldo(top[j]) > Saldo(top[k])
                      \/ Saldo(top[j]) = Saldo(top[k]) /\ top[j] < top[k]
            /\ \A e \in DelServicio \ EnTop : \A k \in DOMAIN top :
                  \/ Saldo(e) < Saldo(top[k])
                  \/ Saldo(e) = Saldo(top[k]) /\ top[k] < e
            /\ \A k \in DOMAIN top :
                  /\ tab2.top10[k].NIU = df[top[k]].NIU
                  /\ tab2.top10[k].NOMBRE = df[top[k]].NOMBRE
                  /\ tab2.top10[k].SALDO_CARTERA = formato_pesos(Entero(Saldo(top[k])))

\* 15 rows of the selected service, 10 of them shown, with equal balances
\* inside the table and on both sides of the cut
C8_Witness ==
    /\ Cargado
    /\ Cardinality(DelServicio) = 15
    /\ Len(tab2.top10_index) = 10
    /\ Saldo(tab2.top10_index[1]) = Saldo(tab2.top10_index[2])
    /\ Saldo(tab2.top10_index[1]) > Saldo(tab2.top10_index[10])
    /\ \E e \in DelServicio \ EnTop : Saldo(e) = Saldo(tab2.top10_index[10])
    /\ Len(df) > 15

\* the text of the raw cell of row i and column col, as astype(str) and
\* str.strip() give it
Recortado(i, col) == strip(astype_str(dtype(Columna(archivo, col)), archivo[i][col]))

\* the text of the raw cell of row i and column col, as astype(str) gives it
Original(i, col) == astype_str(dtype(Columna(archivo, col)), archivo[i][col])

OchoEtiquetas == EtiquetasEdad \cup {MayorA180}

\* C5 (as claimed): trimmed "0".."6" give their label, every other raw EDAD
\* value gives the overflow label, and the bucket is one of the eight labels.
C5_EdadOtroEsMayor ==
    \A i \in DOMAIN df :
        /\ df[i].EDAD.s \in OchoEtiquetas
        /\ Recortado(i, "EDAD") \in DOMAIN reemplazos_edad =>
              df[i].EDAD = Str(reemplazos_edad[Recortado(i, "EDAD")])
        /\ Recortado(i, "EDAD") \notin DOMAIN reemplazos_edad =>
              df[i].EDAD = Str(MayorA180)

\* C5 (amended): trimmed "0".."6" give their label, a raw value whose trimmed
\* text already is one of the seven labels keeps that label, every other raw
\* value gives the overflow label, and the bucket is one of the eight labels.
C5_EdadEnOchoEtiquetas ==
    \A i \in DOMAIN df :
        /\ df[i].EDAD.t = "str"
        /\ df[i].EDAD.s \in OchoEtiquetas
        /\ Recortado(i, "EDAD") \in DOMAIN reemplazos_edad =>
              df[i].EDAD = Str(reemplazos_edad[Recortado(i, "EDAD")])
        /\ Recortado(i, "EDAD") \in EtiquetasEdad =>
              df[i].EDAD = Str(Recortado(i, "EDAD"))
        /\ Recortado(i, "EDAD") \notin (DOMAIN reemplazos_edad \cup EtiquetasEdad) =>
              df[i].EDAD = Str(MayorA180)

\* every case in one table: a code, a padded label and an unexpected value
C5_Witness ==
    /\ Len(df) = 2
    /\ \E i \in DOMAIN df : \E j \in DOMAIN df :
          /\ archivo[i].EDAD.t = "str"
          /\ Original(i, "EDAD") # Recortado(i, "EDAD")
          /\ Recortado(i, "EDAD") \in EtiquetasEdad
          /\ df[i].EDAD = Str(Recortado(i, "EDAD"))
          /\ Recortado(j, "EDAD") \notin (DOMAIN reemplazos_edad \cup EtiquetasEdad)
          /\ df[j].EDAD = Str(MayorA180)

\* C6 (as claimed): a trimmed service-class code gives its label; every other
\* raw CLASE_SERVICIO value, and every raw CODIGO_DEL_SERVICIO value that is
\* not one of its codes, is stored as it was in the source, padding included.
C6_OtrosSinCambio ==
    \A i \in DOMAIN df :
        /\ Recortado(i, "CLASE_SERVICIO") \in DOMAIN reemplazos_servicio =>
              df[i].CLASE_SERVICIO = Str(reemplazos_servicio[Recortado(i, "CLASE_SERVICIO")])
        /\ Recortado(i, "CLASE_SERVICIO") \notin DOMAIN reemplazos_servicio =>
              df[i].CLASE_SERVICIO = Str(Original(i, "CLASE_SERVICIO"))
        /\ Recortado(i, "CODIGO_DEL_SERVICIO") \notin DOMAIN reemplazos_codigo =>
              df[i].CODIGO_DEL_SERVICIO = Str(Original(i, "CODIGO_DEL_SERVICIO"))

\* C6 (amended): a trimmed service-class code gives its label; every other
\* raw CLASE_SERVICIO value, and every raw CODIGO_DEL_SERVICIO value that is
\* not one of its codes, is stored as its text without the surrounding
\* whitespace, which is the source text only when that has no padding.
C6_OtrosRecortados ==
    \A i \in DOMAIN df :
        /\ Recortado(i, "CLASE_SERVICIO") \in DOMAIN reemplazos_servicio =>
              df[i].CLASE_SERVICIO = Str(reemplazos_servicio[Recortado(i, "CLASE_SERVICIO")])
        /\ Recortado(i, "CLASE_SERVICIO") \notin DOMAIN reemplazos_servicio =>
              df[i].CLASE_SERVICIO = Str(Recortado(i, "CLASE_SERVICIO"))
        /\ Recortado(i, "CODIGO_DEL_SERVICIO") \notin DOMAIN reemplazos_codigo =>
              df[i].CODIGO_DEL_SERVICIO = Str(Recortado(i, "CODIGO_DEL_SERVICIO"))

\* a padded service code that is no code of the table, stored without padding
C6_Witness ==
    \E i \in DOMAIN df :
        /\ archivo[i].CODIGO_DEL_SERVICIO.t = "str"
        /\ Recortado(i, "CODIGO_DEL_SERVICIO") \notin DOMAIN reemplazos_codigo
        /\ Recortado(i, "CODIGO_DEL_SERVICIO") # Original(i, "CODIGO_DEL_SERVICIO")
        /\ Recortado(i, "CODIGO_DEL_SERVICIO") # <<>>
        /\ df[i].CODIGO_DEL_SERVICIO = Str(Recortado(i, "CODIGO_DEL_SERVICIO"))

====
